---- MODULE Spec2Model ----
(***************************************************************************)
(* Model of email-queue-service.  The job lifecycle engine                 *)
(* (service/email_service.go): the two bounded channels, the worker pool,  *)
(* the retry worker, the per-failure timer goroutines, the dead-letter     *)
(* log with its lock and its listing, the counters, the recovery from a    *)
(* panic inside processJob and the Shutdown protocol.  The HTTP adapter    *)
(* (handlers/http_handlers.go): request validation in SendEmailHandler.    *)
(***************************************************************************)
EXTENDS Integers, Sequences, FiniteSets, TLC

(* ---------------------------- bounds ---------------------------------- *)
\* number of worker goroutines started by Start (config Workers)
NumWorkers == 1
\* number of EnqueueJob calls made in a run
MaxJobs == 2
\* largest configured primary queue capacity (config QueueSize)
MaxQueueSize == 2
\* number of zero-value receives from the closed jobQueue explored
MaxPhantoms == 1
\* largest length to which a caller extends a slice it was given
MaxSliceLen == 2

(* ------------------------ program constants --------------------------- *)
\* handleJobFailure: "if job.Retries <= 3"
MaxRetries == 3
\* processJob: "len(job.Subject) > 10"
SubjectLimit == 10

(* ----------------------------- jobs ----------------------------------- *)
\* subjects are byte sequences
TenBang == <<"F", "a", "i", "l", " ", "n", "o", "w", "!", "!">>
LongBang == <<"T", "h", "i", "s", " ", "w", "i", "l", "l", " ", "f", "a", "i", "l", "!">>
LongPlain == <<"S", "h", "u", "t", "d", "o", "w", "n", " ", "T", "e", "s", "t", " ", "1">>
Subjects == {TenBang, LongBang, LongPlain}

\* models.EmailJob, plus a ghost id (0 = the zero value, never submitted)
EmailJob(i, to, subject, body, retries) ==
    [id |-> i, To |-> to, Subject |-> subject, Body |-> body, Retries |-> retries]
ZeroJob == EmailJob(0, <<>>, <<>>, "", 0)
NoJob == EmailJob(-1, <<>>, <<>>, "", 0)

\* destinations are character sequences: two well-formed addresses
\* (a@b.co and A.1_%+-@b-2.c.De) and malformed ones: invalid-email of the
\* test script, and a@b, a@b.c, a@b.c1, a@b.c-o, "a b@c.de", a!@b.co,
\* a@b_c.de, a@b@c.de, @b.co and a@.co
GoodTo == <<"a", "@", "b", ".", "c", "o">>
RichTo == <<"A", ".", "1", "_", "%", "+", "-", "@", "b", "-", "2", ".", "c", ".", "D", "e">>
NoAtTo == <<"i", "n", "v", "a", "l", "i", "d", "-", "e", "m", "a", "i", "l">>
NoDotTo == <<"a", "@", "b">>
ShortTldTo == <<"a", "@", "b", ".", "c">>
DigitTldTo == <<"a", "@", "b", ".", "c", "1">>
DashTldTo == <<"a", "@", "b", ".", "c", "-", "o">>
SpaceTo == <<"a", " ", "b", "@", "c", ".", "d", "e">>
BangLocalTo == <<"a", "!", "@", "b", ".", "c", "o">>
UnderscoreDomainTo == <<"a", "@", "b", "_", "c", ".", "d", "e">>
TwoAtTo == <<"a", "@", "b", "@", "c", ".", "d", "e">>
NoLocalTo == <<"@", "b", ".", "c", "o">>
NoDomainTo == <<"a", "@", ".", "c", "o">>

JobIds == 1..MaxJobs

(* ---------------------------- threads --------------------------------- *)
RetryWorkerId == 0
Workers == 1..NumWorkers
TimerOf(j) == NumWorkers + j
Timers == {TimerOf(j) : j \in JobIds}
Processors == Workers \cup {RetryWorkerId}
Threads == Processors \cup Timers
NoThread == -1

VARIABLES
    queueSize,       \* es.queueSize
    started,         \* Start has run
    sdpc,            \* position of the caller of Shutdown
    jobQueue,        \* buffered contents of es.jobQueue
    jobQueueClosed,  \* close(es.jobQueue) has run
    retryQueue,      \* buffered contents of es.retryQueue
    shutdown,        \* close(es.shutdown) has run
    wg,              \* es.wg counter
    deadLetterLog,   \* es.deadLetterLog
    deadLetterLock,  \* writer holding es.deadLetterLock, or NoThread
    jobsProcessed,   \* email_jobs_processed_total
    jobsFailed,      \* email_jobs_failed_total
    deadLetterJobs,  \* email_dead_letter_jobs_total
    pc,              \* position of every goroutine
    cur,             \* the job each goroutine holds
    calls,           \* ghost: number of EnqueueJob calls so far
    enqResult,       \* ghost: outcome of the latest EnqueueJob call
    succeeded,       \* ghost: ids whose delivery succeeded
    attempts,        \* ghost: finished delivery attempts per submitted job
    saturated,       \* ghost: ids whose timer found the retry queue full
    inflight,        \* ghost: <<id, attempts>> of jobs held by workers when Shutdown was called
    phantoms,        \* ghost: zero-value jobs received from the closed jobQueue
    bangs,           \* ghost: accepted ids whose subject is long and ends in '!'
    accepted,        \* ghost: ids of the jobs EnqueueJob accepted
    requeues,        \* ghost: sends of each job into es.retryQueue that proceeded
    readers,         \* callers of GetDeadLetterJobs holding the read lock
    listing,         \* the value the latest GetDeadLetterJobs call returned
    held,            \* the slice in the caller's hands: backing array, len, cap
    heap,            \* the contents of the backing array the caller owns
    faulted,         \* ghost: goroutines whose processJob recovered from a panic
    dropped,         \* ghost: ids of the jobs those calls were processing
    httpStatus       \* status code of the latest SendEmailHandler response

vars == <<queueSize, started, sdpc, jobQueue, jobQueueClosed, retryQueue,
          shutdown, wg, deadLetterLog, deadLetterLock, jobsProcessed,
          jobsFailed, deadLetterJobs, pc, cur, calls, enqResult, succeeded,
          attempts, saturated, inflight, phantoms, bangs, accepted, requeues, readers,
          listing, held, heap, faulted, dropped, httpStatus>>

chanVars == <<jobQueue, jobQueueClosed, retryQueue, shutdown>>
dlVars == <<deadLetterLog, deadLetterLock, jobsFailed, deadLetterJobs>>
enqVars == <<calls, enqResult>>
cfgVars == <<queueSize, started>>
sideVars == <<readers, listing, held, heap, faulted, dropped>>

(* ------------------------- pure helpers ------------------------------- *)
\* NewEmailService: make(chan models.EmailJob, queueSize/2)
RetryCap(qs) == qs \div 2

\* mutant: the retry count is not consulted
ShouldFailEveryAttempt(job) ==
    /\ Len(job.Subject) > SubjectLimit
    /\ job.Subject[Len(job.Subject)] = "!"

\* mutant: len(job.Subject) >= 10
ShouldFailFromTen(job) ==
    /\ job.Retries = 0
    /\ Len(job.Subject) >= SubjectLimit
    /\ job.Subject[Len(job.Subject)] = "!"

\* processJob: job.Retries == 0 && len(job.Subject) > 10 && job.Subject[len(job.Subject)-1] == '!'
ShouldFail(job) ==
    /\ job.Retries = 0
    /\ Len(job.Subject) > SubjectLimit
    /\ job.Subject[Len(job.Subject)] = "!"

\* ghost classification of a submitted job: retry count 0, subject longer
\* than 10 characters whose last character is '!'
LongAndBang(job) ==
    /\ job.Retries = 0
    /\ Len(job.Subject) >= 11
    /\ job.Subject[Len(job.Subject)] = "!"

\* where a goroutine goes when processJob / moveToDeadLetter returns
LoopPc(t) ==
    IF t \in Workers THEN "select"
    ELSE IF t = RetryWorkerId THEN "outer"
    ELSE "none"

\* a slice value: the array it points into ("log" is the backing array of
\* es.deadLetterLog, "own" an array allocated for the caller), its length
\* and its capacity
Slice(arr, len, cap) == [arr |-> arr, len |-> len, cap |-> cap]
NilSlice == Slice("none", 0, 0)

\* the elements of the array a slice points into
Array(sl) == IF sl.arr = "log" THEN deadLetterLog ELSE heap

\* append's new capacity when the array is full: the runtime doubles a small
\* slice, and an empty one gets room for the one element
GrowCap(cap) == IF cap = 0 THEN 1 ELSE 2 * cap

(* ------------------------------ Init ---------------------------------- *)
Init ==
    /\ queueSize \in 1..MaxQueueSize
    /\ started = FALSE
    /\ sdpc = "notcalled"
    /\ jobQueue = <<>>
    /\ jobQueueClosed = FALSE
    /\ retryQueue = <<>>
    /\ shutdown = FALSE
    /\ wg = 0
    /\ deadLetterLog = <<>>
    /\ deadLetterLock = NoThread
    /\ jobsProcessed = 0
    /\ jobsFailed = 0
    /\ deadLetterJobs = 0
    /\ pc = [t \in Threads |-> "none"]
    /\ cur = [t \in Threads |-> NoJob]
    /\ calls = 0
    /\ enqResult = "none"
    /\ succeeded = {}
    /\ attempts = [j \in JobIds |-> 0]
    /\ saturated = {}
    /\ inflight = {}
    /\ phantoms = 0
    /\ bangs = {}
    /\ accepted = {}
    /\ requeues = [j \in JobIds |-> 0]
    /\ readers = 0
    /\ listing = <<>>
    /\ held = NilSlice
    /\ heap = <<>>
    /\ faulted = {}
    /\ dropped = {}
    /\ httpStatus = 0

(* ------------------------------ Start --------------------------------- *)
Start ==
    /\ ~started
    /\ started' = TRUE
    /\ wg' = wg + NumWorkers + 1
    /\ pc' = [t \in Threads |->
                IF t \in Workers THEN "select"
                ELSE IF t = RetryWorkerId THEN "outer"
                ELSE pc[t]]
    /\ UNCHANGED <<queueSize, sdpc, chanVars, dlVars, jobsProcessed, cur,
                   enqVars, succeeded, attempts, saturated, inflight, phantoms, bangs, accepted, sideVars, httpStatus, requeues>>

(* ---------------------------- EnqueueJob ------------------------------ *)
\* mutant: the capacity test is off by one
EnqueueJobPastCapacity(job) ==
    /\ calls < MaxJobs
    /\ calls' = calls + 1
    /\ IF jobQueueClosed
         THEN /\ enqResult' = "panic"
              /\ jobQueue' = jobQueue
         ELSE IF Len(jobQueue) <= queueSize
           THEN /\ enqResult' = "ok"
                /\ jobQueue' = Append(jobQueue, job)
           ELSE /\ enqResult' = "full"
                /\ jobQueue' = jobQueue
    /\ bangs' = IF enqResult' = "ok" /\ LongAndBang(job)
                   THEN bangs \cup {job.id}
                   ELSE bangs
    /\ accepted' = IF enqResult' = "ok"
                      THEN accepted \cup {job.id}
                      ELSE accepted
    /\ UNCHANGED <<cfgVars, sdpc, jobQueueClosed, retryQueue, shutdown, wg,
                   dlVars, jobsProcessed, pc, cur, succeeded, attempts,
                   saturated, inflight, phantoms, sideVars, requeues>>

\* select { case es.jobQueue <- job: return nil; default: return error }
\* a send on a closed channel panics, also inside a select with default
EnqueueJob(job) ==
    /\ calls < MaxJobs
    /\ calls' = calls + 1
    /\ IF jobQueueClosed
         THEN /\ enqResult' = "panic"
              /\ jobQueue' = jobQueue
         ELSE IF Len(jobQueue) < queueSize
           THEN /\ enqResult' = "ok"
                /\ jobQueue' = Append(jobQueue, job)
           ELSE /\ enqResult' = "full"
                /\ jobQueue' = jobQueue
    /\ bangs' = IF enqResult' = "ok" /\ LongAndBang(job)
                   THEN bangs \cup {job.id}
                   ELSE bangs
    /\ accepted' = IF enqResult' = "ok"
                      THEN accepted \cup {job.id}
                      ELSE accepted
    /\ UNCHANGED <<cfgVars, sdpc, jobQueueClosed, retryQueue, shutdown, wg,
                   dlVars, jobsProcessed, pc, cur, succeeded, attempts,
                   saturated, inflight, phantoms, sideVars, requeues>>

(* -------------------------- SendEmailHandler -------------------------- *)
StatusAccepted == 202
StatusBadRequest == 400
StatusMethodNotAllowed == 405
StatusUnprocessableEntity == 422
StatusServiceUnavailable == 503
\* the handler panicked before writing a status
NoResponse == 0

\* the character classes of the pattern
Letters ==
    {"a", "b", "c", "d", "e", "f", "g", "h", "i", "j", "k", "l", "m",
     "n", "o", "p", "q", "r", "s", "t", "u", "v", "w", "x", "y", "z",
     "A", "B", "C", "D", "E", "F", "G", "H", "I", "J", "K", "L", "M",
     "N", "O", "P", "Q", "R", "S", "T", "U", "V", "W", "X", "Y", "Z"}
Digits == {"0", "1", "2", "3", "4", "5", "6", "7", "8", "9"}
LocalChars == Letters \cup Digits \cup {".", "_", "%", "+", "-"}
DomainChars == Letters \cup Digits \cup {".", "-"}

\* utils.ValidateEmail: the whole string matches
\* ^[a-zA-Z0-9._%+-]+@[a-zA-Z0-9.-]+\.[a-zA-Z]{2,}$ : one or more local
\* characters up to an '@' at position a, one or more domain characters up
\* to a '.' at position d, and two or more letters from there to the end
ValidateEmail(to) ==
    \E a \in 2..Len(to) :
        /\ to[a] = "@"
        /\ \A i \in 1..(a - 1) : to[i] \in LocalChars
        /\ \E d \in (a + 2)..(Len(to) - 2) :
              /\ to[d] = "."
              /\ \A i \in (a + 1)..(d - 1) : to[i] \in DomainChars
              /\ \A i \in (d + 1)..Len(to) : to[i] \in Letters

\* the requests a client sends: method, whether the body decodes as JSON,
\* and the three decoded fields (an absent field decodes as empty)
Request(method, json, to, subject, body) ==
    [Method |-> method, Json |-> json, To |-> to, Subject |-> subject, Body |-> body]
\* the destinations the format check lets through and those it turns away
WellFormedTos == {GoodTo, RichTo}
MalformedTos ==
    {NoAtTo, NoDotTo, ShortTldTo, DigitTldTo, DashTldTo, SpaceTo, BangLocalTo,
     UnderscoreDomainTo, TwoAtTo, NoLocalTo, NoDomainTo}
Requests ==
    {Request("POST", TRUE, GoodTo, subject, "x") : subject \in Subjects}
      \cup {Request("POST", TRUE, RichTo, LongPlain, "x")}
      \cup {Request("POST", TRUE, to, LongBang, "x") : to \in {<<>>} \cup MalformedTos}
      \cup {Request("POST", TRUE, GoodTo, <<>>, "x"),
            Request("POST", TRUE, GoodTo, LongBang, ""),
            Request("POST", TRUE, <<>>, <<>>, ""),
            Request("GET", TRUE, GoodTo, LongPlain, "x"),
            Request("POST", FALSE, <<>>, <<>>, "")}

\* http.Error(w, ..., code); return: nothing else changes
Respond(code) ==
    /\ httpStatus' = code
    /\ UNCHANGED <<cfgVars, sdpc, chanVars, wg, dlVars, jobsProcessed, pc, cur,
                   enqVars, succeeded, attempts, saturated, inflight, phantoms,
                   bangs, accepted, requeues, sideVars>>

\* what the client gets for the outcome of EnqueueJob
StatusOf(result) ==
    IF result = "ok" THEN StatusAccepted
    ELSE IF result = "full" THEN StatusServiceUnavailable
    ELSE NoResponse

\* the handler on a request that passes every validation: the job is built
\* with retry count 0, EnqueueJob is called, and the response reports its
\* outcome (202 accepted, 503 queue full)
Submit ==
    \E s \in Subjects :
        /\ EnqueueJob(EmailJob(calls + 1, GoodTo, s, "x", 0))
        /\ httpStatus' = StatusOf(enqResult')

\* mutant: the address format is not checked
SendEmailHandlerNoFormatCheck(req) ==
    IF req.Method # "POST"
      THEN Respond(StatusMethodNotAllowed)
    ELSE IF ~req.Json
      THEN Respond(StatusBadRequest)
    ELSE IF req.To = <<>> \/ req.Subject = <<>> \/ req.Body = ""
      THEN Respond(StatusUnprocessableEntity)
    ELSE /\ EnqueueJob(EmailJob(calls + 1, req.To, req.Subject, req.Body, 0))
         /\ httpStatus' = StatusOf(enqResult')

\* SendEmailHandler: method check, JSON decoding, required fields, address
\* format, then EnqueueJob and the status that reports its outcome
SendEmailHandler(req) ==
    IF req.Method # "POST"
      THEN Respond(StatusMethodNotAllowed)
    ELSE IF ~req.Json
      THEN Respond(StatusBadRequest)
    ELSE IF req.To = <<>> \/ req.Subject = <<>> \/ req.Body = ""
      THEN Respond(StatusUnprocessableEntity)
    ELSE IF ~ValidateEmail(req.To)
      THEN Respond(StatusUnprocessableEntity)
    ELSE /\ EnqueueJob(EmailJob(calls + 1, req.To, req.Subject, req.Body, 0))
         /\ httpStatus' = StatusOf(enqResult')

(* ------------------------------ worker -------------------------------- *)
\* mutant: the received job is not removed from the channel
WorkerRecvJobNoDequeue(w) ==
    /\ pc[w] = "select"
    /\ \/ jobQueue # <<>>
       \/ jobQueueClosed /\ phantoms < MaxPhantoms
    /\ IF jobQueue # <<>>
         THEN /\ cur' = [cur EXCEPT ![w] = Head(jobQueue)]
              /\ jobQueue' = jobQueue
              /\ phantoms' = phantoms
         ELSE /\ cur' = [cur EXCEPT ![w] = ZeroJob]
              /\ jobQueue' = jobQueue
              /\ phantoms' = phantoms + 1
    /\ pc' = [pc EXCEPT ![w] = "process"]
    /\ UNCHANGED <<cfgVars, sdpc, jobQueueClosed, retryQueue, shutdown, wg,
                   dlVars, jobsProcessed, enqVars, succeeded, attempts,
                   saturated, inflight, bangs, accepted, sideVars, httpStatus, requeues>>

\* case job := <-es.jobQueue: an open channel yields its head; a closed and
\* drained channel yields the zero value
WorkerRecvJob(w) ==
    /\ pc[w] = "select"
    /\ \/ jobQueue # <<>>
       \/ jobQueueClosed /\ phantoms < MaxPhantoms
    /\ IF jobQueue # <<>>
         THEN /\ cur' = [cur EXCEPT ![w] = Head(jobQueue)]
              /\ jobQueue' = Tail(jobQueue)
              /\ phantoms' = phantoms
         ELSE /\ cur' = [cur EXCEPT ![w] = ZeroJob]
              /\ jobQueue' = jobQueue
              /\ phantoms' = phantoms + 1
    /\ pc' = [pc EXCEPT ![w] = "process"]
    /\ UNCHANGED <<cfgVars, sdpc, jobQueueClosed, retryQueue, shutdown, wg,
                   dlVars, jobsProcessed, enqVars, succeeded, attempts,
                   saturated, inflight, bangs, accepted, sideVars, httpStatus, requeues>>

\* case job := <-es.retryQueue
WorkerRecvRetry(w) ==
    /\ pc[w] = "select"
    /\ retryQueue # <<>>
    /\ cur' = [cur EXCEPT ![w] = Head(retryQueue)]
    /\ retryQueue' = Tail(retryQueue)
    /\ pc' = [pc EXCEPT ![w] = "process"]
    /\ UNCHANGED <<cfgVars, sdpc, jobQueue, jobQueueClosed, shutdown, wg,
                   dlVars, jobsProcessed, enqVars, succeeded, attempts,
                   saturated, inflight, phantoms, bangs, accepted, sideVars, httpStatus, requeues>>

\* mutant: the deferred es.wg.Done() is missing
WorkerShutdownNoDone(w) ==
    /\ pc[w] = "select"
    /\ shutdown
    /\ pc' = [pc EXCEPT ![w] = "done"]
    /\ wg' = wg
    /\ UNCHANGED <<cfgVars, sdpc, chanVars, dlVars, jobsProcessed, cur,
                   enqVars, succeeded, attempts, saturated, inflight, phantoms, bangs, accepted, sideVars, httpStatus, requeues>>

\* case <-es.shutdown: return (deferred es.wg.Done())
WorkerShutdown(w) ==
    /\ pc[w] = "select"
    /\ shutdown
    /\ pc' = [pc EXCEPT ![w] = "done"]
    /\ wg' = wg - 1
    /\ UNCHANGED <<cfgVars, sdpc, chanVars, dlVars, jobsProcessed, cur,
                   enqVars, succeeded, attempts, saturated, inflight, phantoms, bangs, accepted, sideVars, httpStatus, requeues>>

(* --------------------------- retryWorker ------------------------------ *)
\* outer select: case <-es.shutdown: return; default: inner select
RetryOuter ==
    /\ pc[RetryWorkerId] = "outer"
    /\ IF shutdown
         THEN /\ pc' = [pc EXCEPT ![RetryWorkerId] = "done"]
              /\ wg' = wg - 1
         ELSE /\ pc' = [pc EXCEPT ![RetryWorkerId] = "inner"]
              /\ wg' = wg
    /\ UNCHANGED <<cfgVars, sdpc, chanVars, dlVars, jobsProcessed, cur,
                   enqVars, succeeded, attempts, saturated, inflight, phantoms, bangs, accepted, sideVars, httpStatus, requeues>>

\* inner select: case job := <-es.retryQueue
RetryRecv ==
    /\ pc[RetryWorkerId] = "inner"
    /\ retryQueue # <<>>
    /\ cur' = [cur EXCEPT ![RetryWorkerId] = Head(retryQueue)]
    /\ retryQueue' = Tail(retryQueue)
    /\ pc' = [pc EXCEPT ![RetryWorkerId] = "process"]
    /\ UNCHANGED <<cfgVars, sdpc, jobQueue, jobQueueClosed, shutdown, wg,
                   dlVars, jobsProcessed, enqVars, succeeded, attempts,
                   saturated, inflight, phantoms, bangs, accepted, sideVars, httpStatus, requeues>>

\* inner select: case <-time.After(100 * time.Millisecond)
RetryTimeout ==
    /\ pc[RetryWorkerId] = "inner"
    /\ pc' = [pc EXCEPT ![RetryWorkerId] = "outer"]
    /\ UNCHANGED <<cfgVars, sdpc, chanVars, wg, dlVars, jobsProcessed, cur,
                   enqVars, succeeded, attempts, saturated, inflight, phantoms, bangs, accepted, sideVars, httpStatus, requeues>>

(* ---------------------- processJob / handleJobFailure ----------------- *)
Attempted(job) ==
    IF job.id \in JobIds
      THEN [attempts EXCEPT ![job.id] = @ + 1]
      ELSE attempts

\* mutant: job.Retries++ is missing
handleJobFailureNoIncrement(t, job) ==
    LET failed == job IN
    /\ IF failed.Retries <= MaxRetries
         THEN /\ pc' = [pc EXCEPT ![t] = LoopPc(t), ![TimerOf(job.id)] = "sleep"]
              /\ cur' = [cur EXCEPT ![t] = NoJob, ![TimerOf(job.id)] = failed]
         ELSE /\ pc' = [pc EXCEPT ![t] = "mdl_lock"]
              /\ cur' = [cur EXCEPT ![t] = failed]
    /\ UNCHANGED <<jobsProcessed, succeeded>>

\* mutant: the retry count grows by 2
handleJobFailureDoubleIncrement(t, job) ==
    LET failed == [job EXCEPT !.Retries = @ + 2] IN
    /\ IF failed.Retries <= MaxRetries
         THEN /\ pc' = [pc EXCEPT ![t] = LoopPc(t), ![TimerOf(job.id)] = "sleep"]
              /\ cur' = [cur EXCEPT ![t] = NoJob, ![TimerOf(job.id)] = failed]
         ELSE /\ pc' = [pc EXCEPT ![t] = "mdl_lock"]
              /\ cur' = [cur EXCEPT ![t] = failed]
    /\ UNCHANGED <<jobsProcessed, succeeded>>

\* mutant: the delay doubles with every retry
DelayDoubling(job) == 2 * job.Retries

\* time.Sleep(time.Duration(job.Retries) * time.Second): the duration, in
\* seconds, that the timer goroutine holding the job sleeps before its send
Delay(job) == job.Retries

\* mutant: the delay is slept by the caller itself, no goroutine is started
handleJobFailureSleepsInline(t, job) ==
    LET failed == [job EXCEPT !.Retries = @ + 1] IN
    /\ IF failed.Retries <= MaxRetries
         THEN /\ pc' = [pc EXCEPT ![t] = "backoff"]
              /\ cur' = [cur EXCEPT ![t] = failed]
         ELSE /\ pc' = [pc EXCEPT ![t] = "mdl_lock"]
              /\ cur' = [cur EXCEPT ![t] = failed]
    /\ UNCHANGED <<jobsProcessed, succeeded>>

\* job.Retries++; Retries <= 3: start a timer goroutine and return;
\* otherwise call moveToDeadLetter
handleJobFailure(t, job) ==
    LET failed == [job EXCEPT !.Retries = @ + 1] IN
    /\ IF failed.Retries <= MaxRetries
         THEN /\ pc' = [pc EXCEPT ![t] = LoopPc(t), ![TimerOf(job.id)] = "sleep"]
              /\ cur' = [cur EXCEPT ![t] = NoJob, ![TimerOf(job.id)] = failed]
         ELSE /\ pc' = [pc EXCEPT ![t] = "mdl_lock"]
              /\ cur' = [cur EXCEPT ![t] = failed]
    /\ UNCHANGED <<jobsProcessed, succeeded>>

\* the delivery attempt of the job goroutine t holds
processJob(t) ==
    /\ pc[t] = "process"
    /\ attempts' = Attempted(cur[t])
    /\ IF ShouldFail(cur[t])
         THEN handleJobFailure(t, cur[t])
         ELSE /\ jobsProcessed' = jobsProcessed + 1
              /\ succeeded' = succeeded \cup {cur[t].id}
              /\ pc' = [pc EXCEPT ![t] = LoopPc(t)]
              /\ cur' = [cur EXCEPT ![t] = NoJob]
    /\ UNCHANGED <<cfgVars, sdpc, chanVars, wg, dlVars, enqVars, saturated,
                   inflight, phantoms, bangs, accepted, sideVars, httpStatus, requeues>>

(* ------------------------ panic inside processJob --------------------- *)
\* mutant: processJob has no deferred recover, the panic ends the goroutine
processJobPanicNoRecover(t) ==
    /\ pc[t] = "process"
    /\ cur[t].id \notin dropped
    /\ pc' = [pc EXCEPT ![t] = "crashed"]
    /\ cur' = [cur EXCEPT ![t] = NoJob]
    /\ attempts' = Attempted(cur[t])
    /\ faulted' = faulted \cup {t}
    /\ dropped' = dropped \cup {cur[t].id}
    /\ UNCHANGED <<cfgVars, sdpc, chanVars, wg, dlVars, jobsProcessed, enqVars,
                   succeeded, saturated, inflight, phantoms, bangs, accepted, requeues,
                   readers, listing, held, heap, httpStatus>>

\* a panic raised inside processJob before the outcome of the attempt is
\* decided: the deferred function recovers it and logs, processJob returns
\* to the loop of its caller, and the job it was given goes out of scope
processJobPanic(t) ==
    /\ pc[t] = "process"
    /\ cur[t].id \notin dropped
    /\ pc' = [pc EXCEPT ![t] = LoopPc(t)]
    /\ cur' = [cur EXCEPT ![t] = NoJob]
    /\ attempts' = Attempted(cur[t])
    /\ faulted' = faulted \cup {t}
    /\ dropped' = dropped \cup {cur[t].id}
    /\ UNCHANGED <<cfgVars, sdpc, chanVars, wg, dlVars, jobsProcessed, enqVars,
                   succeeded, saturated, inflight, phantoms, bangs, accepted, requeues,
                   readers, listing, held, heap, httpStatus>>

(* ------------------------- timer goroutine ---------------------------- *)
\* a receiver that may be parked on the unbuffered retry channel
ParkedReceivers ==
    {w \in Workers : pc[w] = "select" /\ jobQueue = <<>> /\ ~jobQueueClosed /\ ~shutdown}
      \cup {r \in {RetryWorkerId} : pc[r] = "inner"}

\* mutant: the send is accepted one past the capacity
TimerFireBlockingSend(t) ==
    /\ t \in Timers
    /\ pc[t] = "sleep"
    /\ \/ /\ Len(retryQueue) <= RetryCap(queueSize)
          /\ retryQueue' = Append(retryQueue, cur[t])
          /\ pc' = [pc EXCEPT ![t] = "none"]
          /\ cur' = [cur EXCEPT ![t] = NoJob]
          /\ saturated' = saturated
          /\ requeues' = [requeues EXCEPT ![cur[t].id] = @ + 1]
       \/ /\ RetryCap(queueSize) = 0
          /\ \E r \in ParkedReceivers :
               /\ pc' = [pc EXCEPT ![t] = "none", ![r] = "process"]
               /\ cur' = [cur EXCEPT ![t] = NoJob, ![r] = cur[t]]
          /\ retryQueue' = retryQueue
          /\ saturated' = saturated
          /\ requeues' = [requeues EXCEPT ![cur[t].id] = @ + 1]
       \/ /\ Len(retryQueue) >= RetryCap(queueSize)
          /\ retryQueue' = retryQueue
          /\ pc' = [pc EXCEPT ![t] = "mdl_lock"]
          /\ cur' = cur
          /\ saturated' = saturated \cup {cur[t].id}
          /\ requeues' = requeues
    /\ UNCHANGED <<cfgVars, sdpc, jobQueue, jobQueueClosed, shutdown, wg,
                   dlVars, jobsProcessed, enqVars, succeeded, attempts,
                   inflight, phantoms, bangs, accepted, sideVars, httpStatus>>

\* mutant: Shutdown has closed the retry queue as well, the send panics
TimerFireOnClosedQueue(t) ==
    /\ t \in Timers
    /\ pc[t] = "sleep"
    /\ IF sdpc # "notcalled"
         THEN /\ pc' = [pc EXCEPT ![t] = "crashed"]
              /\ UNCHANGED <<cur, retryQueue, saturated, requeues>>
         ELSE \/ /\ Len(retryQueue) < RetryCap(queueSize)
                 /\ retryQueue' = Append(retryQueue, cur[t])
                 /\ pc' = [pc EXCEPT ![t] = "none"]
                 /\ cur' = [cur EXCEPT ![t] = NoJob]
                 /\ saturated' = saturated
                 /\ requeues' = [requeues EXCEPT ![cur[t].id] = @ + 1]
              \/ /\ RetryCap(queueSize) = 0
                 /\ \E r \in ParkedReceivers :
                      /\ pc' = [pc EXCEPT ![t] = "none", ![r] = "process"]
                      /\ cur' = [cur EXCEPT ![t] = NoJob, ![r] = cur[t]]
                 /\ retryQueue' = retryQueue
                 /\ saturated' = saturated
                 /\ requeues' = [requeues EXCEPT ![cur[t].id] = @ + 1]
              \/ /\ Len(retryQueue) >= RetryCap(queueSize)
                 /\ retryQueue' = retryQueue
                 /\ pc' = [pc EXCEPT ![t] = "mdl_lock"]
                 /\ cur' = cur
                 /\ saturated' = saturated \cup {cur[t].id}
                 /\ requeues' = requeues
    /\ UNCHANGED <<cfgVars, sdpc, jobQueue, jobQueueClosed, shutdown, wg,
                   dlVars, jobsProcessed, enqVars, succeeded, attempts,
                   inflight, phantoms, bangs, accepted, sideVars, httpStatus>>

\* mutant: the default branch of the select is empty, the job is let go
TimerFireDropsWhenFull(t) ==
    /\ t \in Timers
    /\ pc[t] = "sleep"
    /\ \/ /\ Len(retryQueue) < RetryCap(queueSize)
          /\ retryQueue' = Append(retryQueue, cur[t])
          /\ pc' = [pc EXCEPT ![t] = "none"]
          /\ cur' = [cur EXCEPT ![t] = NoJob]
          /\ saturated' = saturated
          /\ requeues' = [requeues EXCEPT ![cur[t].id] = @ + 1]
       \/ /\ RetryCap(queueSize) = 0
          /\ \E r \in ParkedReceivers :
               /\ pc' = [pc EXCEPT ![t] = "none", ![r] = "process"]
               /\ cur' = [cur EXCEPT ![t] = NoJob, ![r] = cur[t]]
          /\ retryQueue' = retryQueue
          /\ saturated' = saturated
          /\ requeues' = [requeues EXCEPT ![cur[t].id] = @ + 1]
       \/ /\ Len(retryQueue) >= RetryCap(queueSize)
          /\ retryQueue' = retryQueue
          /\ pc' = [pc EXCEPT ![t] = "none"]
          /\ cur' = [cur EXCEPT ![t] = NoJob]
          /\ saturated' = saturated \cup {cur[t].id}
          /\ requeues' = requeues
    /\ UNCHANGED <<cfgVars, sdpc, jobQueue, jobQueueClosed, shutdown, wg,
                   dlVars, jobsProcessed, enqVars, succeeded, attempts,
                   inflight, phantoms, bangs, accepted, sideVars, httpStatus>>

\* after time.Sleep: select { case es.retryQueue <- job: default: moveToDeadLetter }
TimerFire(t) ==
    /\ t \in Timers
    /\ pc[t] = "sleep"
    /\ \/ /\ Len(retryQueue) < RetryCap(queueSize)
          /\ retryQueue' = Append(retryQueue, cur[t])
          /\ pc' = [pc EXCEPT ![t] = "none"]
          /\ cur' = [cur EXCEPT ![t] = NoJob]
          /\ saturated' = saturated
          /\ requeues' = [requeues EXCEPT ![cur[t].id] = @ + 1]
       \/ /\ RetryCap(queueSize) = 0
          /\ \E r \in ParkedReceivers :
               /\ pc' = [pc EXCEPT ![t] = "none", ![r] = "process"]
               /\ cur' = [cur EXCEPT ![t] = NoJob, ![r] = cur[t]]
          /\ retryQueue' = retryQueue
          /\ saturated' = saturated
          /\ requeues' = [requeues EXCEPT ![cur[t].id] = @ + 1]
       \/ /\ Len(retryQueue) >= RetryCap(queueSize)
          /\ retryQueue' = retryQueue
          /\ pc' = [pc EXCEPT ![t] = "mdl_lock"]
          /\ cur' = cur
          /\ saturated' = saturated \cup {cur[t].id}
          /\ requeues' = requeues
    /\ UNCHANGED <<cfgVars, sdpc, jobQueue, jobQueueClosed, shutdown, wg,
                   dlVars, jobsProcessed, enqVars, succeeded, attempts,
                   inflight, phantoms, bangs, accepted, sideVars, httpStatus>>

(* -------------------------- moveToDeadLetter -------------------------- *)
\* mutant: the lock is taken without waiting for its holder
MdlLockNoExclusion(t) ==
    /\ pc[t] = "mdl_lock"
    /\ deadLetterLock' = t
    /\ pc' = [pc EXCEPT ![t] = "mdl_append"]
    /\ UNCHANGED <<cfgVars, sdpc, chanVars, wg, deadLetterLog, jobsFailed,
                   deadLetterJobs, jobsProcessed, cur, enqVars, succeeded,
                   attempts, saturated, inflight, phantoms, bangs, accepted, sideVars, httpStatus, requeues>>

\* es.deadLetterLock.Lock(): no writer and no reader holds the lock
MdlLock(t) ==
    /\ pc[t] = "mdl_lock"
    /\ deadLetterLock = NoThread
    /\ readers = 0
    /\ deadLetterLock' = t
    /\ pc' = [pc EXCEPT ![t] = "mdl_append"]
    /\ UNCHANGED <<cfgVars, sdpc, chanVars, wg, deadLetterLog, jobsFailed,
                   deadLetterJobs, jobsProcessed, cur, enqVars, succeeded,
                   attempts, saturated, inflight, phantoms, bangs, accepted, sideVars, httpStatus, requeues>>

\* mutant: the record is appended twice
MdlAppendTwice(t) ==
    /\ pc[t] = "mdl_append"
    /\ deadLetterLog' = Append(Append(deadLetterLog, cur[t]), cur[t])
    /\ pc' = [pc EXCEPT ![t] = "mdl_incFailed"]
    /\ UNCHANGED <<cfgVars, sdpc, chanVars, wg, deadLetterLock, jobsFailed,
                   deadLetterJobs, jobsProcessed, cur, enqVars, succeeded,
                   attempts, saturated, inflight, phantoms, bangs, accepted, sideVars, httpStatus, requeues>>

\* mutant: the record is put in front of the log
MdlAppendInFront(t) ==
    /\ pc[t] = "mdl_append"
    /\ deadLetterLog' = <<cur[t]>> \o deadLetterLog
    /\ pc' = [pc EXCEPT ![t] = "mdl_incFailed"]
    /\ UNCHANGED <<cfgVars, sdpc, chanVars, wg, deadLetterLock, jobsFailed,
                   deadLetterJobs, jobsProcessed, cur, enqVars, succeeded,
                   attempts, saturated, inflight, phantoms, bangs, accepted, sideVars, httpStatus, requeues>>

\* es.deadLetterLog = append(es.deadLetterLog, job)
MdlAppend(t) ==
    /\ pc[t] = "mdl_append"
    /\ deadLetterLog' = Append(deadLetterLog, cur[t])
    /\ pc' = [pc EXCEPT ![t] = "mdl_incFailed"]
    /\ UNCHANGED <<cfgVars, sdpc, chanVars, wg, deadLetterLock, jobsFailed,
                   deadLetterJobs, jobsProcessed, cur, enqVars, succeeded,
                   attempts, saturated, inflight, phantoms, bangs, accepted, sideVars, httpStatus, requeues>>

\* es.jobsFailed.Inc()
MdlIncFailed(t) ==
    /\ pc[t] = "mdl_incFailed"
    /\ jobsFailed' = jobsFailed + 1
    /\ pc' = [pc EXCEPT ![t] = "mdl_incDL"]
    /\ UNCHANGED <<cfgVars, sdpc, chanVars, wg, deadLetterLog, deadLetterLock,
                   deadLetterJobs, jobsProcessed, cur, enqVars, succeeded,
                   attempts, saturated, inflight, phantoms, bangs, accepted, sideVars, httpStatus, requeues>>

\* es.deadLetterJobs.Inc()
MdlIncDeadLetter(t) ==
    /\ pc[t] = "mdl_incDL"
    /\ deadLetterJobs' = deadLetterJobs + 1
    /\ pc' = [pc EXCEPT ![t] = "mdl_unlock"]
    /\ UNCHANGED <<cfgVars, sdpc, chanVars, wg, deadLetterLog, deadLetterLock,
                   jobsFailed, jobsProcessed, cur, enqVars, succeeded,
                   attempts, saturated, inflight, phantoms, bangs, accepted, sideVars, httpStatus, requeues>>

\* deferred es.deadLetterLock.Unlock(), then return to the caller
MdlUnlock(t) ==
    /\ pc[t] = "mdl_unlock"
    /\ deadLetterLock' = NoThread
    /\ pc' = [pc EXCEPT ![t] = LoopPc(t)]
    /\ cur' = [cur EXCEPT ![t] = NoJob]
    /\ UNCHANGED <<cfgVars, sdpc, chanVars, wg, deadLetterLog, jobsFailed,
                   deadLetterJobs, jobsProcessed, enqVars, succeeded,
                   attempts, saturated, inflight, phantoms, bangs, accepted, sideVars, httpStatus, requeues>>

(* -------------------------- GetDeadLetterJobs ------------------------- *)
\* es.deadLetterLock.RLock(): granted while no writer holds the lock; one
\* client lists at a time
ListRLock ==
    /\ readers = 0
    /\ deadLetterLock = NoThread
    /\ readers' = readers + 1
    /\ UNCHANGED <<cfgVars, sdpc, chanVars, wg, dlVars, jobsProcessed, pc, cur,
                   enqVars, succeeded, attempts, saturated, inflight, phantoms,
                   bangs, accepted, requeues, listing, held, heap, faulted, dropped,
                   httpStatus>>

\* mutant: return es.deadLetterLog, the slice itself
ListCopyReturnAlias ==
    /\ readers = 1
    /\ listing' = deadLetterLog
    /\ held' = Slice("log", Len(deadLetterLog), Len(deadLetterLog))
    /\ heap' = <<>>
    /\ readers' = readers - 1
    /\ UNCHANGED <<cfgVars, sdpc, chanVars, wg, dlVars, jobsProcessed, pc, cur,
                   enqVars, succeeded, attempts, saturated, inflight, phantoms,
                   bangs, accepted, requeues, faulted, dropped, httpStatus>>

\* jobs := make([]models.EmailJob, len(es.deadLetterLog)): a new array of
\* len(es.deadLetterLog) zero values, its capacity equal to its length;
\* copy(jobs, es.deadLetterLog) fills it element by element; return jobs
\* (deferred RUnlock) hands the slice to the caller
ListCopyReturn ==
    /\ readers = 1
    /\ listing' = deadLetterLog
    /\ LET n == Len(deadLetterLog)
       IN /\ heap' = [i \in 1..n |-> deadLetterLog[i]]
          /\ held' = Slice("own", n, n)
    /\ readers' = readers - 1
    /\ UNCHANGED <<cfgVars, sdpc, chanVars, wg, dlVars, jobsProcessed, pc, cur,
                   enqVars, succeeded, attempts, saturated, inflight, phantoms,
                   bangs, accepted, requeues, faulted, dropped, httpStatus>>

(* The client of GetDeadLetterJobs.  DeadLetterHandler only encodes what  *)
(* it is given; the three operations below are the ones the contract of   *)
(* GetDeadLetterJobs speaks of, with the slice semantics of the language. *)
\* a write through a slice lands in the array the slice points into
WriteThrough(sl, i, job) ==
    IF sl.arr = "log"
      THEN /\ deadLetterLog' = [deadLetterLog EXCEPT ![i] = job]
           /\ heap' = heap
      ELSE /\ heap' = [heap EXCEPT ![i] = job]
           /\ deadLetterLog' = deadLetterLog

\* the caller assigns to an element of the slice it was given:
\* jobs[i-1] = models.EmailJob{}
CallerModifies ==
    /\ \E i \in 1..held.len :
          /\ Array(held)[i] # ZeroJob
          /\ WriteThrough(held, i, ZeroJob)
    /\ held' = held
    /\ UNCHANGED <<cfgVars, sdpc, chanVars, wg, deadLetterLock, jobsFailed,
                   deadLetterJobs, jobsProcessed, pc, cur, enqVars, succeeded,
                   attempts, saturated, inflight, phantoms, bangs, accepted, requeues,
                   readers, listing, faulted, dropped, httpStatus>>

\* the caller drops the last element: jobs = jobs[:len(jobs)-1]; the array
\* and the capacity stay
CallerTruncates ==
    /\ held.len > 0
    /\ held' = [held EXCEPT !.len = @ - 1]
    /\ UNCHANGED <<cfgVars, sdpc, chanVars, wg, dlVars, jobsProcessed, pc, cur,
                   enqVars, succeeded, attempts, saturated, inflight, phantoms,
                   bangs, accepted, requeues, readers, listing, heap, faulted,
                   dropped, httpStatus>>

\* the caller extends the slice: jobs = append(jobs, models.EmailJob{}).
\* With room left the element is written into the same array; a full slice
\* is first moved to a new, larger array of the caller's own
CallerExtends ==
    /\ held.len < MaxSliceLen
    /\ IF held.len < held.cap
         THEN /\ WriteThrough(held, held.len + 1, ZeroJob)
              /\ held' = [held EXCEPT !.len = @ + 1]
         ELSE /\ heap' = [i \in 1..GrowCap(held.cap) |->
                            IF i <= held.len THEN Array(held)[i] ELSE ZeroJob]
              /\ held' = Slice("own", held.len + 1, GrowCap(held.cap))
              /\ deadLetterLog' = deadLetterLog
    /\ UNCHANGED <<cfgVars, sdpc, chanVars, wg, deadLetterLock, jobsFailed,
                   deadLetterJobs, jobsProcessed, pc, cur, enqVars, succeeded,
                   attempts, saturated, inflight, phantoms, bangs, accepted, requeues,
                   readers, listing, faulted, dropped, httpStatus>>

(* ------------------------------ Shutdown ------------------------------ *)
HeldByProcessors ==
    {<<cur[t].id, attempts[cur[t].id]>> :
        t \in {p \in Processors : pc[p] = "process" /\ cur[p].id \in JobIds}}

\* close(es.jobQueue)
ShutdownCloseJobQueue ==
    /\ started
    /\ sdpc = "notcalled"
    /\ jobQueueClosed' = TRUE
    /\ sdpc' = "closedJobQueue"
    /\ inflight' = HeldByProcessors
    /\ UNCHANGED <<cfgVars, jobQueue, retryQueue, shutdown, wg, dlVars,
                   jobsProcessed, pc, cur, enqVars, succeeded, attempts,
                   saturated, phantoms, bangs, accepted, sideVars, httpStatus, requeues>>

\* close(es.shutdown)
ShutdownSignal ==
    /\ sdpc = "closedJobQueue"
    /\ shutdown' = TRUE
    /\ sdpc' = "waiting"
    /\ UNCHANGED <<cfgVars, jobQueue, jobQueueClosed, retryQueue, wg, dlVars,
                   jobsProcessed, pc, cur, enqVars, succeeded, attempts,
                   saturated, inflight, phantoms, bangs, accepted, sideVars, httpStatus, requeues>>

\* mutant: es.wg.Wait() is missing
ShutdownNoWait ==
    /\ sdpc = "waiting"
    /\ sdpc' = "returned"
    /\ UNCHANGED <<cfgVars, chanVars, wg, dlVars, jobsProcessed, pc, cur,
                   enqVars, succeeded, attempts, saturated, inflight, phantoms, bangs, accepted, sideVars, httpStatus, requeues>>

\* es.wg.Wait() returns
ShutdownWait ==
    /\ sdpc = "waiting"
    /\ wg = 0
    /\ sdpc' = "returned"
    /\ UNCHANGED <<cfgVars, chanVars, wg, dlVars, jobsProcessed, pc, cur,
                   enqVars, succeeded, attempts, saturated, inflight, phantoms, bangs, accepted, sideVars, httpStatus, requeues>>

(* --------------------------- specification ---------------------------- *)
\* the steps of the goroutines of the running service
ServeNext ==
    \/ Start
    \/ \E w \in Workers : WorkerRecvJob(w)
    \/ \E w \in Workers : WorkerRecvRetry(w)
    \/ RetryOuter
    \/ RetryRecv
    \/ RetryTimeout
    \/ \E t \in Processors : processJob(t)
    \/ \E t \in Timers : TimerFire(t)
    \/ \E t \in Threads : MdlLock(t)
    \/ \E t \in Threads : MdlAppend(t)
    \/ \E t \in Threads : MdlIncFailed(t)
    \/ \E t \in Threads : MdlIncDeadLetter(t)
    \/ \E t \in Threads : MdlUnlock(t)

\* the steps of the caller of Shutdown and the workers' exit
StopNext ==
    \/ \E w \in Workers : WorkerShutdown(w)
    \/ ShutdownCloseJobQueue
    \/ ShutdownSignal
    \/ ShutdownWait

EngineNext ==
    \/ ServeNext
    \/ StopNext

Next ==
    \/ Submit
    \/ EngineNext

Spec == Init /\ [][Next]_vars

\* the running service together with a client that lists the dead-letter
\* log while jobs are submitted, retried and recorded
ListNext ==
    \/ Submit
    \/ ServeNext
    \/ ListRLock
    \/ ListCopyReturn
    \/ CallerModifies
    \/ CallerTruncates
    \/ CallerExtends

ListSpec == Init /\ [][ListNext]_vars

\* the running service when a delivery attempt may panic
FaultNext ==
    \/ Submit
    \/ ServeNext
    \/ \E t \in Processors : processJobPanic(t)

FaultSpec == Init /\ [][FaultNext]_vars

\* the engine behind the HTTP adapter: every job arrives through
\* SendEmailHandler
HttpNext ==
    \/ \E req \in Requests : SendEmailHandler(req)
    \/ EngineNext

HttpSpec == Init /\ [][HttpNext]_vars

(* ----------------------------- fairness ------------------------------- *)
\* Every goroutine that can run is eventually scheduled; a select whose
\* case is ready again and again eventually takes it (Go picks uniformly
\* at random among the ready cases); sync.Mutex hands the lock to a waiter.
Fairness ==
    /\ WF_vars(ShutdownSignal)
    /\ WF_vars(ShutdownWait)
    /\ \A w \in Workers :
         /\ WF_vars(WorkerRecvJob(w) \/ WorkerRecvRetry(w) \/ WorkerShutdown(w))
         /\ SF_vars(WorkerShutdown(w))
    /\ \A p \in Processors : WF_vars(processJob(p))
    /\ WF_vars(RetryOuter)
    /\ WF_vars(RetryRecv \/ RetryTimeout)
    /\ \A t \in Timers : WF_vars(TimerFire(t))
    /\ \A t \in Threads :
         /\ SF_vars(MdlLock(t))
         /\ WF_vars(MdlAppend(t) \/ MdlIncFailed(t) \/ MdlIncDeadLetter(t) \/ MdlUnlock(t))

FairSpec == Spec /\ Fairness

(* ------------------------ where a job can be -------------------------- *)
InSeq(q, j) == \E i \in 1..Len(q) : q[i].id = j
InJobQueue(j) == InSeq(jobQueue, j)
InRetryQueue(j) == InSeq(retryQueue, j)
InDeadLetter(j) == InSeq(deadLetterLog, j)
WithProcessor(j) == \E p \in Processors : cur[p].id = j
WithTimer(j) == \E t \in Timers : pc[t] # "none" /\ cur[t].id = j
Sleeping(j) == \E t \in Timers : pc[t] = "sleep" /\ cur[t].id = j
\* the job has left the queues, the workers and the timers
Gone(j) == ~InJobQueue(j) /\ ~InRetryQueue(j) /\ ~WithProcessor(j) /\ ~WithTimer(j)
Nowhere(j) == Gone(j) /\ ~InDeadLetter(j)
DeadLetterRecords(j) == {i \in 1..Len(deadLetterLog) : deadLetterLog[i].id = j}

\* steps, recognised by the goroutine's change of position
EnqueueStep == calls' = calls + 1
ProcessStep(p) == pc[p] = "process" /\ pc'[p] # "process"
FireStep(t) == pc[t] = "sleep" /\ pc'[t] # "sleep"
ShutdownCalled == sdpc # "notcalled"

TypeOK ==
    /\ queueSize \in 1..MaxQueueSize
    /\ Len(jobQueue) <= queueSize
    /\ wg \in 0..(NumWorkers + 1)
    /\ deadLetterLock \in Threads \cup {NoThread}
    /\ calls \in 0..MaxJobs

(* ================================ C1 ================================== *)
\* C1: before Shutdown, EnqueueJob can always be called and returns at once;
\* below capacity it returns success and the job is appended to the primary
\* queue; at capacity it returns the queue-full error, the job is retained
\* nowhere and the primary queue is unchanged.
C1_EnqueueContract ==
    /\ [](calls < MaxJobs => ENABLED Submit)
    /\ [][(EnqueueStep /\ ~jobQueueClosed) =>
            IF Len(jobQueue) < queueSize
              THEN /\ enqResult' = "ok"
                   /\ Len(jobQueue') = Len(jobQueue) + 1
                   /\ SubSeq(jobQueue', 1, Len(jobQueue)) = jobQueue
                   /\ jobQueue'[Len(jobQueue')].id = calls'
                   /\ jobQueue'[Len(jobQueue')].Retries = 0
              ELSE /\ enqResult' = "full"
                   /\ jobQueue' = jobQueue
                   /\ retryQueue' = retryQueue
                   /\ deadLetterLog' = deadLetterLog
                   /\ \A t \in Threads : cur'[t].id # calls'
                   /\ ~InSeq(jobQueue', calls') /\ ~InSeq(retryQueue', calls')
                   /\ ~InSeq(deadLetterLog', calls')]_vars

\* a full primary queue has just rejected a job
C1_Witness ==
    /\ enqResult = "full"
    /\ ~jobQueueClosed
    /\ Len(jobQueue) = queueSize
    /\ Nowhere(calls)

(* ================================ C2 ================================== *)
\* C2 as stated: a long subject ending in '!' with retry count 0, whose timer
\* never found the retry queue full and with Shutdown not called, has, once
\* it left the queues, workers and timers, been retried 3 times and is
\* recorded exactly once in the dead-letter log with retry count 4.
C2_Original ==
    \A j \in bangs :
        (Gone(j) /\ j \notin saturated /\ ~ShutdownCalled) =>
            /\ Cardinality(DeadLetterRecords(j)) = 1
            /\ \A i \in DeadLetterRecords(j) : deadLetterLog[i].Retries = 4
            /\ attempts[j] = 4

\* C2 amended: such a job fails once, is retried exactly once with retry
\* count 1, and that second attempt succeeds: once the service is started it
\* is eventually counted as processed, is never dead-lettered (the
\* dead-lettered counter stays 0 when no timer found the retry queue full),
\* and after that is in no queue.
C2_RetriedOnceThenProcessed ==
    /\ [](\A j \in bangs :
            (Gone(j) /\ j \notin saturated /\ ~ShutdownCalled) =>
                /\ j \in succeeded
                /\ attempts[j] = 2
                /\ DeadLetterRecords(j) = {})
    /\ [](saturated = {} => deadLetterJobs = 0 /\ deadLetterLog = <<>>)
    /\ [](\A p \in Processors : cur[p].id \in bangs => cur[p].Retries <= 1)
    /\ \A j \in JobIds :
         (started /\ j \in bangs) ~>
             (j \in succeeded \/ j \in saturated \/ ShutdownCalled)

\* a '!' job has been retried once and counted as processed
C2_Witness ==
    \E j \in bangs :
        /\ j \in succeeded
        /\ attempts[j] = 2
        /\ j \notin saturated
        /\ ~ShutdownCalled
        /\ Gone(j)

(* ================================ C3 ================================== *)
\* C3: after Shutdown has been called, every EnqueueJob call returns a
\* failure to its caller (no panic) and leaves the primary queue unchanged.
C3_EnqueueAfterShutdownFails ==
    [][(EnqueueStep /\ ShutdownCalled) =>
          /\ enqResult' = "full"
          /\ jobQueue' = jobQueue]_vars

(* ================================ C4 ================================== *)
\* C4: when Shutdown has returned, every worker and the retry loop have
\* exited, and every job a worker held when Shutdown was called has finished
\* that delivery attempt.
C4_ShutdownWaitsForWorkers ==
    sdpc = "returned" =>
        /\ \A p \in Processors : pc[p] = "done"
        /\ wg = 0
        /\ \A x \in inflight : attempts[x[1]] > x[2] /\ ~WithProcessor(x[1])

\* Shutdown has returned and a job was in a worker's hands when it was called
C4_Witness ==
    /\ sdpc = "returned"
    /\ inflight # {}

(* ================================ C5 ================================== *)
\* C5: once Shutdown is called, every worker and the retry loop eventually
\* exit and Shutdown eventually returns.
C5_ShutdownTerminates ==
    ShutdownCalled ~> (sdpc = "returned" /\ \A p \in Processors : pc[p] = "done")

\* Shutdown has returned although a queue still held jobs or a timer was
\* still pending
C5_Witness ==
    /\ sdpc = "returned"
    /\ \/ retryQueue # <<>>
       \/ jobQueue # <<>>
       \/ \E t \in Timers : pc[t] = "sleep"

(* ================================ C6 ================================== *)
\* C6: after the shutdown signal has been raised no worker acquires a job
\* from the primary queue or the retry queue.
C6_NoAcquisitionAfterSignal ==
    [][shutdown => \A w \in Workers : ~(pc[w] = "select" /\ pc'[w] = "process")]_vars

(* ================================ C7 ================================== *)
\* C7: processed + permanently-failed never decreases and always equals the
\* number of submitted jobs whose delivery succeeded plus the number of
\* records in the dead-letter log.
C7_CountersEqualExits ==
    /\ [](jobsProcessed + jobsFailed =
            Cardinality(succeeded \cap JobIds) + Len(deadLetterLog))
    /\ [][jobsProcessed' + jobsFailed' >= jobsProcessed + jobsFailed]_vars

(* ================================ C8 ================================== *)
\* C8: a job whose subject has at most 10 characters, or does not end in
\* '!', or whose retry count is above 0, succeeds when a worker processes
\* it: processed grows by exactly 1, the job is discarded, no timer starts,
\* and it is never in the retry queue or the dead-letter log afterwards.
C8_OtherJobsSucceed ==
    /\ [][\A p \in Processors :
            (/\ ProcessStep(p)
             /\ \/ Len(cur[p].Subject) <= 10
                \/ cur[p].Subject[Len(cur[p].Subject)] # "!"
                \/ cur[p].Retries > 0) =>
                /\ jobsProcessed' = jobsProcessed + 1
                /\ cur[p].id \in succeeded'
                /\ cur'[p] = NoJob
                /\ \A t \in Timers : pc'[t] = pc[t] /\ cur'[t] = cur[t]
                /\ retryQueue' = retryQueue
                /\ deadLetterLog' = deadLetterLog]_vars
    /\ [](\A j \in succeeded \cap JobIds : Nowhere(j))

\* one job succeeded on its first attempt and one on a retry
C8_Witness ==
    \E j, k \in succeeded \cap JobIds :
        /\ attempts[j] = 1
        /\ attempts[k] = 2
        /\ jobsProcessed >= 2

(* ================================ C9 ================================== *)
\* C9: a job with retry count 0 whose subject is longer than 10 characters
\* and ends in '!' fails when processed: processed is not incremented, its
\* retry count becomes 1 and a retry timer is started for it.
C9_FirstAttemptFails ==
    [][\A p \in Processors :
          (/\ ProcessStep(p)
           /\ cur[p].Retries = 0
           /\ Len(cur[p].Subject) > 10
           /\ cur[p].Subject[Len(cur[p].Subject)] = "!") =>
              /\ jobsProcessed' = jobsProcessed
              /\ cur[p].id \notin succeeded'
              /\ \E t \in Timers :
                   /\ pc[t] = "none"
                   /\ pc'[t] = "sleep"
                   /\ cur'[t] = [cur[p] EXCEPT !.Retries = 1]]_vars

\* a timer is pending for a job that failed its first attempt
C9_Witness ==
    \E t \in Timers :
        /\ pc[t] = "sleep"
        /\ cur[t].Retries = 1
        /\ cur[t].id \in bangs
        /\ attempts[cur[t].id] = 1

(* ================================ C10 ================================= *)
\* the non-blocking send cannot proceed: the buffer is at capacity and, for
\* an unbuffered channel, no receiver is waiting
RetryQueueFull ==
    /\ Len(retryQueue) >= RetryCap(queueSize)
    /\ RetryCap(queueSize) = 0 => ParkedReceivers = {}

\* C10: when a timer fires with the retry queue full, the job goes straight
\* to the dead-letter log and is never again in the retry queue, with a
\* sleeping timer or with a worker; with free capacity it is placed in the
\* retry queue and not dead-lettered by that step.
C10_SaturationDeadLetters ==
    /\ [][\A t \in Timers : FireStep(t) =>
            /\ RetryQueueFull =>
                 /\ pc'[t] = "mdl_lock"
                 /\ cur'[t] = cur[t]
                 /\ retryQueue' = retryQueue
                 /\ \A p \in Processors : cur'[p] = cur[p]
            /\ Len(retryQueue) < RetryCap(queueSize) =>
                 /\ retryQueue' = Append(retryQueue, cur[t])
                 /\ pc'[t] = "none"
                 /\ deadLetterLog' = deadLetterLog
                 /\ jobsFailed' = jobsFailed
                 /\ deadLetterJobs' = deadLetterJobs]_vars
    /\ [](\A j \in saturated :
            /\ ~InRetryQueue(j) /\ ~InJobQueue(j)
            /\ ~WithProcessor(j) /\ ~Sleeping(j)
            /\ j \notin succeeded
            /\ Cardinality(DeadLetterRecords(j)) <= 1
            /\ (~WithTimer(j) => Cardinality(DeadLetterRecords(j)) = 1))

\* a job was dead-lettered by a full retry queue while another sits in it
C10_Witness ==
    /\ \E j \in saturated : InDeadLetter(j)
    /\ retryQueue # <<>>
    /\ Len(retryQueue) = RetryCap(queueSize)

(* ================================ C11 ================================= *)
\* the retry counts carried by the copies of job j, wherever they are
RetriesOf(j) ==
    {jobQueue[i].Retries : i \in {k \in 1..Len(jobQueue) : jobQueue[k].id = j}}
      \cup {retryQueue[i].Retries : i \in {k \in 1..Len(retryQueue) : retryQueue[k].id = j}}
      \cup {deadLetterLog[i].Retries : i \in DeadLetterRecords(j)}
      \cup {cur[t].Retries : t \in {u \in Threads : cur[u].id = j}}

\* the delivery attempt that processor p finishes in this step fails
FailedAttempt(p) == ProcessStep(p) /\ ShouldFail(cur[p])

\* C11: a job's retry count changes only in a failed delivery attempt, where
\* it grows by exactly 1; it never decreases; all copies of a job carry the
\* same count; and no job is sent to the retry queue more than 3 times.
C11_RetryCountDiscipline ==
    /\ [][\/ UNCHANGED <<cur, jobQueue, retryQueue, deadLetterLog>>
          \/ \A j \in JobIds :
                LET old == RetriesOf(j)
                    new == RetriesOf(j)'
                IN IF \E p \in Processors : cur[p].id = j /\ FailedAttempt(p)
                     THEN \A p \in Processors : cur[p].id = j =>
                              /\ old = {cur[p].Retries}
                              /\ new = {cur[p].Retries + 1}
                     ELSE old = {} \/ new \subseteq old]_vars
    /\ [](\A j \in JobIds :
            /\ Cardinality(RetriesOf(j)) <= 1
            /\ requeues[j] <= MaxRetries)

\* a worker holds a job that failed once and came back through the retry queue
C11_Witness ==
    \E j \in JobIds :
        /\ requeues[j] = 1
        /\ RetriesOf(j) = {1}
        /\ \E p \in Processors : pc[p] = "process" /\ cur[p].id = j

(* ================================ C12 ================================= *)
\* C12: no submitted job has more than one record in the dead-letter log,
\* and a job that has a record there is not in the primary queue, not in the
\* retry queue, not with a pending retry timer and not with a worker.
C12_DeadLetteredOnceAndFinal ==
    \A j \in JobIds :
        /\ Cardinality(DeadLetterRecords(j)) <= 1
        /\ InDeadLetter(j) =>
              /\ ~InJobQueue(j)
              /\ ~InRetryQueue(j)
              /\ ~Sleeping(j)
              /\ ~WithProcessor(j)

\* two jobs have been recorded and have left the engine
C12_Witness ==
    \E j, k \in JobIds :
        /\ j # k
        /\ InDeadLetter(j) /\ Gone(j)
        /\ InDeadLetter(k) /\ Gone(k)

(* ================================ C13 ================================= *)
\* C13: whenever the dead-letter lock is not held by a recorder, the
\* permanently-failed counter, the dead-lettered counter and the length of
\* the dead-letter log are equal; while a recorder holds it, the log is
\* exactly one record ahead of each counter that recorder has not yet
\* incremented, so each record operation appends one record and adds 1 to
\* each counter, whatever other recorders do meanwhile.
C13_RecordIsAtomic ==
    /\ deadLetterLock = NoThread =>
          /\ jobsFailed = Len(deadLetterLog)
          /\ deadLetterJobs = Len(deadLetterLog)
    /\ \A t \in Threads : deadLetterLock = t =>
          /\ pc[t] \in {"mdl_append", "mdl_incFailed", "mdl_incDL", "mdl_unlock"}
          /\ Len(deadLetterLog) = jobsFailed + (IF pc[t] = "mdl_incFailed" THEN 1 ELSE 0)
          /\ Len(deadLetterLog) =
                deadLetterJobs + (IF pc[t] \in {"mdl_incFailed", "mdl_incDL"} THEN 1 ELSE 0)
    /\ \A t \in Threads :
          pc[t] \in {"mdl_append", "mdl_incFailed", "mdl_incDL", "mdl_unlock"} =>
              deadLetterLock = t

\* one recorder is between its append and its increments while a second
\* recorder waits for the lock
C13_Witness ==
    \E t, u \in Threads :
        /\ t # u
        /\ deadLetterLock = t
        /\ pc[t] = "mdl_incFailed"
        /\ pc[u] = "mdl_lock"

(* ================================ C14 ================================= *)
IsPrefix(a, b) == Len(a) <= Len(b) /\ SubSeq(b, 1, Len(a)) = a

\* a GetDeadLetterJobs call returns in this step
ListReturnStep == readers = 1 /\ readers' = 0

\* C14: the dead-letter log only grows at its end, every listing is the log
\* as it was when the listing was taken, and each listing is a prefix of the
\* next one, while recorders and the lister interleave.
C14_LogIsAppendOnly ==
    /\ [][IsPrefix(deadLetterLog, deadLetterLog')]_vars
    /\ [][ListReturnStep =>
            /\ listing' = deadLetterLog
            /\ IsPrefix(listing, listing')]_vars
    /\ [](IsPrefix(listing, deadLetterLog))

\* a listing was returned with one record, a second record was appended
\* after it, and the next listing is being taken
C14_Witness ==
    /\ Len(listing) = 1
    /\ Len(deadLetterLog) = 2
    /\ readers = 1

(* ================================ C15 ================================= *)
\* what the caller sees in the slice it holds, and everything it can reach
\* through it by re-slicing up to the capacity
View(sl) == SubSeq(Array(sl), 1, sl.len)
Reach(sl) == SubSeq(Array(sl), 1, sl.cap)

\* the caller modifies, truncates or extends the slice it was given
CallerStep == (held' # held \/ heap' # heap) /\ ~ListReturnStep

\* C15: when the caller modifies, truncates or extends the returned
\* sequence, the live log and the result of the latest call stay as they
\* are; every call, whatever the caller did to earlier results, returns the
\* live log of that moment in a slice whose capacity is its length; a step
\* of the service, such as the recording of a later job, changes nothing the
\* caller sees or can reach through the sequence it was given; and the log
\* and every result hold only recorded jobs.
C15_ListingIsIndependentCopy ==
    /\ [][CallerStep =>
            /\ deadLetterLog' = deadLetterLog
            /\ listing' = listing]_vars
    /\ [][ListReturnStep =>
            /\ listing' = deadLetterLog
            /\ View(held)' = deadLetterLog
            /\ held'.cap = Len(deadLetterLog)
            /\ IsPrefix(listing, listing')]_vars
    /\ [][(~CallerStep /\ ~ListReturnStep) =>
            /\ View(held)' = View(held)
            /\ Reach(held)' = Reach(held)]_vars
    /\ [](\A i \in 1..Len(deadLetterLog) : deadLetterLog[i].id \in JobIds)
    /\ [](\A i \in 1..Len(listing) : listing[i].id \in JobIds)

\* the caller was given one record, extended the sequence past its capacity,
\* truncated it again and overwrote the record; a second record was
\* appended to the log since, the first is intact, and a later call has
\* started
C15_Witness ==
    /\ Len(listing) = 1
    /\ held = Slice("own", 1, 2)
    /\ heap[1] = ZeroJob
    /\ Len(deadLetterLog) = 2
    /\ deadLetterLog[1] = listing[1]
    /\ readers = 1

(* ================================ C16 ================================= *)
\* processJob of goroutine p ends in a recovered panic in this step
FaultStep(p) == ProcessStep(p) /\ dropped' # dropped

\* C16: a panic raised while a worker or the retry worker processes a job
\* ends no goroutine: the panicking goroutine is back at the head of its
\* loop, every other worker keeps its position and its job, the wait group
\* is untouched, and a worker that recovered can take the next job from a
\* non-empty queue.
C16_FaultLeavesWorkersRunning ==
    /\ [][\A p \in Processors : FaultStep(p) =>
            /\ pc'[p] = LoopPc(p)
            /\ wg' = wg
            /\ \A q \in Processors \ {p} : pc'[q] = pc[q] /\ cur'[q] = cur[q]]_vars
    /\ [](started => \A p \in Processors :
            pc[p] \in {"select", "outer", "inner", "process"})
    /\ [](\A w \in faulted \cap Workers :
            (pc[w] = "select" /\ jobQueue # <<>>) => ENABLED WorkerRecvJob(w))

\* a worker that recovered from a panic is processing a later job
C16_Witness ==
    \E p \in faulted :
        /\ pc[p] = "process"
        /\ cur[p].id \in JobIds \ dropped

(* ================================ C17 ================================= *)
\* C17: a job whose delivery attempt ends in a panic is handled as a failed
\* attempt: its retry count grows by 1 and a retry timer is started for it
\* (or, past the retry limit, it is on its way to the dead-letter log), so
\* it never vanishes from the engine without having succeeded or been
\* recorded.
C17_FaultIsTransientFailure ==
    /\ [][\A p \in Processors : \A j \in JobIds :
            (FaultStep(p) /\ cur[p].id = j) =>
                /\ RetriesOf(j)' = {cur[p].Retries + 1}
                /\ \/ Sleeping(j)'
                   \/ \E t \in Threads : pc'[t] = "mdl_lock" /\ cur'[t].id = j]_vars
    /\ [](\A j \in dropped \cap JobIds :
            ~Nowhere(j) \/ j \in succeeded)

(* ================================ C18 ================================= *)
\* C18: for a primary capacity of at least 1 the capacity of the retry
\* queue is half of it rounded down and at least 1, so a timer that fires
\* while the retry queue is empty finds room in it for its job.
C18_RetryCapacityAtLeastOne ==
    queueSize >= 1 =>
        /\ 2 * RetryCap(queueSize) <= queueSize
        /\ queueSize < 2 * RetryCap(queueSize) + 2
        /\ RetryCap(queueSize) >= 1
        /\ \A t \in Timers :
              (pc[t] = "sleep" /\ retryQueue = <<>>) =>
                  Len(retryQueue) < RetryCap(queueSize)

(* ================================ C19 ================================= *)
\* C19: once Shutdown has returned, the processed, permanently-failed and
\* dead-lettered counters and the dead-letter log never change again, also
\* when a retry timer started before Shutdown fires afterwards.
C19_ReadOnlyAfterShutdown ==
    [][sdpc = "returned" =>
         /\ jobsProcessed' = jobsProcessed
         /\ jobsFailed' = jobsFailed
         /\ deadLetterJobs' = deadLetterJobs
         /\ deadLetterLog' = deadLetterLog]_vars

(* ================================ C20 ================================= *)
\* the POST requests with a decodable body that fail validation: an empty
\* destination, subject or body, or a malformed destination
InvalidRequests ==
    {req \in Requests :
        /\ req.Method = "POST"
        /\ req.Json
        /\ \/ req.To = <<>>
           \/ req.Subject = <<>>
           \/ req.Body = ""
           \/ req.To \in MalformedTos}

\* the POST requests with a decodable body that pass validation
ValidRequests ==
    {req \in Requests :
        /\ req.Method = "POST"
        /\ req.Json
        /\ req.To \in WellFormedTos
        /\ req.Subject # <<>>
        /\ req.Body # ""}

\* C20: a POST /send-email that fails validation is answered 422, is not
\* passed to EnqueueJob and leaves the primary queue unchanged; a valid one
\* is passed to EnqueueJob and is answered 202 exactly when EnqueueJob
\* succeeded and 503 exactly when it reported the queue full; and every job
\* in the engine has a non-empty subject and body and a well-formed address.
C20_AdapterValidatesBeforeEnqueue ==
    /\ [][\A req \in InvalidRequests : (pc' = pc /\ SendEmailHandler(req)) =>
            /\ httpStatus' = StatusUnprocessableEntity
            /\ calls' = calls
            /\ jobQueue' = jobQueue]_vars
    /\ [][\A req \in ValidRequests : (pc' = pc /\ SendEmailHandler(req)) =>
            /\ calls' = calls + 1
            /\ httpStatus' = StatusAccepted <=> enqResult' = "ok"
            /\ httpStatus' = StatusServiceUnavailable <=> enqResult' = "full"
            /\ enqResult' = "ok" <=> jobQueue' # jobQueue]_vars
    /\ [](\A i \in 1..Len(jobQueue) :
            /\ jobQueue[i].To \in WellFormedTos
            /\ jobQueue[i].Subject # <<>>
            /\ jobQueue[i].Body # "")

\* with the primary queue full of accepted jobs, a valid request was turned
\* away with 503 and then an invalid one with 422
C20_Witness ==
    /\ httpStatus = StatusUnprocessableEntity
    /\ enqResult = "full"
    /\ Len(jobQueue) = queueSize
    /\ ~jobQueueClosed

(* ================================ C21 ================================= *)
\* C21: once Start has run, and as long as Shutdown is not called, every
\* job that EnqueueJob accepted is eventually
\* counted as processed or recorded in the dead-letter log; it is never
\* both, it has at most one record, and the processed counter counts each
\* delivered job once.
C21_AcceptedJobsExit ==
    /\ \A j \in JobIds :
          (started /\ j \in accepted) ~>
              (j \in succeeded \/ InDeadLetter(j) \/ ShutdownCalled)
    /\ [](\A j \in JobIds :
            /\ ~(j \in succeeded /\ InDeadLetter(j))
            /\ Cardinality(DeadLetterRecords(j)) <= 1
            /\ (j \in accepted /\ Gone(j)) =>
                  (j \in succeeded \/ InDeadLetter(j)))
    /\ [](~ShutdownCalled => jobsProcessed = Cardinality(succeeded))

\* without Shutdown, one job has left as processed and another through the
\* dead-letter log
C21_Witness ==
    /\ started
    /\ ~ShutdownCalled
    /\ \E j, k \in JobIds :
          /\ j \in succeeded /\ Gone(j)
          /\ InDeadLetter(k) /\ Gone(k)

(* ================================ C22 ================================= *)
\* the number of copies of job j in the sequence q
CopiesIn(q, j) == Cardinality({i \in 1..Len(q) : q[i].id = j})

\* the number of owners of job j: positions in the two queues, workers
\* holding it, timer goroutines that have not yet recorded it, records in
\* the dead-letter log, and its completion
Owners(j) ==
    CopiesIn(jobQueue, j)
      + CopiesIn(retryQueue, j)
      + Cardinality({t \in Threads :
            cur[t].id = j /\ pc[t] \in {"process", "sleep", "mdl_lock", "mdl_append"}})
      + CopiesIn(deadLetterLog, j)
      + (IF j \in succeeded THEN 1 ELSE 0)

\* C22: every accepted job has exactly one owner: one position in the
\* primary queue or in the retry queue, one worker, one timer goroutine
\* (pending, or on its way to record the job), one record in the
\* dead-letter log, or its completion; a job that was not accepted has none.
C22_SingleOwner ==
    \A j \in JobIds : Owners(j) = (IF j \in accepted THEN 1 ELSE 0)

\* one accepted job waits with its timer while a worker holds another
C22_Witness ==
    \E j, k \in accepted :
        /\ j # k
        /\ Sleeping(j)
        /\ \E p \in Processors : pc[p] = "process" /\ cur[p].id = k

(* ================================ C23 ================================= *)
\* the threads that are inside processJob with an accepted job
InDelivery == {p \in Processors : pc[p] = "process" /\ cur[p].id \in accepted}

\* C23: with N workers, at most N accepted jobs are inside processJob at
\* the same time.  The retry worker started by Start calls processJob too,
\* so N + 1 jobs can be in delivery together.
C23_AtMostNInDelivery ==
    Cardinality(InDelivery) <= NumWorkers

(* ================================ C24 ================================= *)
\* C24: the primary queue never holds more than queueSize jobs and the
\* retry queue never more than queueSize / 2, and queueSize, from which
\* both capacities are made at construction, never changes.
C24_QueuesWithinCapacity ==
    /\ [](/\ Len(jobQueue) <= queueSize
          /\ Len(retryQueue) <= RetryCap(queueSize))
    /\ [][queueSize' = queueSize]_vars

\* the retry queue is at its capacity of at least one job and a timer
\* that found it full has turned to the dead-letter log
C24_Witness ==
    /\ RetryCap(queueSize) >= 1
    /\ Len(retryQueue) = RetryCap(queueSize)
    /\ \E t \in Timers : pc[t] = "mdl_lock" /\ cur[t].id \in saturated

(* ================================ C25 ================================= *)
\* C25: a failed attempt leaves its caller back at its dispatch loop with
\* empty hands and the job with a pending timer of its own; whatever timers
\* are pending, a worker at its loop can take a job from either non-empty
\* queue and a worker holding a job can finish the attempt; and every
\* pending timer can fire, whatever the other timers do.
C25_DelayNeverBlocksWorker ==
    /\ [][\A p \in Processors : \A j \in JobIds :
            (FailedAttempt(p) /\ cur[p].id = j) =>
                /\ pc'[p] = LoopPc(p)
                /\ cur'[p] = NoJob
                /\ pc'[TimerOf(j)] = "sleep"]_vars
    /\ [](\A w \in Workers :
            /\ (pc[w] = "select" /\ jobQueue # <<>>) => ENABLED WorkerRecvJob(w)
            /\ (pc[w] = "select" /\ retryQueue # <<>>) => ENABLED WorkerRecvRetry(w)
            /\ pc[w] = "process" => ENABLED processJob(w))
    /\ [](\A t \in Timers : pc[t] = "sleep" => ENABLED TimerFire(t))

\* two timers are pending together: the second job was taken and its
\* attempt finished while the first job's timer was pending
C25_Witness ==
    /\ \E j, k \in JobIds : j # k /\ Sleeping(j) /\ Sleeping(k)
    /\ \A w \in Workers : pc[w] = "select"

(* ================================ C26 ================================= *)
\* the number of failed delivery attempts of job j so far
Failures(j) == attempts[j] - (IF j \in succeeded THEN 1 ELSE 0)

\* C26: a pending timer sleeps for as many seconds as its job has failed
\* attempts (its new retry count); the job enters the retry queue only in
\* the step in which its timer ends; while the timer is pending the job is
\* in no queue and with no worker; and every attempt after the first comes
\* after a re-submission of its own.
C26_ResubmittedAfterDelay ==
    /\ [](\A t \in Timers :
            pc[t] = "sleep" =>
                /\ Delay(cur[t]) = Failures(cur[t].id)
                /\ Delay(cur[t]) \in 1..MaxRetries)
    /\ [][\A j \in JobIds :
            (requeues'[j] # requeues[j] \/ (InRetryQueue(j)' /\ ~InRetryQueue(j))) =>
                /\ FireStep(TimerOf(j))
                /\ requeues'[j] = requeues[j] + 1]_vars
    /\ [](\A j \in JobIds :
            /\ WithTimer(j) =>
                  ~InJobQueue(j) /\ ~InRetryQueue(j) /\ ~WithProcessor(j)
            /\ attempts[j] <= requeues[j] + 1
            /\ (\E p \in Processors : pc[p] = "process" /\ cur[p].id = j) =>
                  attempts[j] = requeues[j])

\* a job that failed once is in its second attempt, after its timer of one
\* second has sent it to the retry queue
C26_Witness ==
    \E j \in JobIds : \E p \in Processors :
        /\ pc[p] = "process"
        /\ cur[p].id = j
        /\ Delay(cur[p]) = 1
        /\ Failures(j) = 1
        /\ requeues[j] = 1

(* ================================ C27 ================================= *)
\* C27: every job inside processJob was accepted by EnqueueJob, and the
\* processed counter never exceeds the number of accepted jobs.  After
\* close(es.jobQueue) a worker's receive yields the zero value, which is
\* processed and counted.
C27_OnlyAcceptedJobsProcessed ==
    /\ \A p \in Processors : pc[p] = "process" => cur[p].id \in accepted
    /\ jobsProcessed <= Cardinality(accepted)

(* ================================ C28 ================================= *)
\* every worker and the retry worker have returned
AllExited == \A p \in Processors : pc[p] = "done"

\* C28: a timer that fires after Shutdown was called ends in one of three
\* ways: the job is appended to a retry queue with room, it is handed to a
\* receiver waiting on an unbuffered retry queue, or, the queue having no
\* room, the goroutine turns to moveToDeadLetter with the job.  No timer goroutine
\* ever ends in a panic, a pending timer can always fire, and a goroutine in
\* moveToDeadLetter can always go on once the lock is free.  A job in the
\* retry queue after every worker and the retry worker have returned stays
\* there, neither counted as processed nor dead-lettered.
C28_LateTimerIsHarmless ==
    /\ [][\A t \in Timers : (ShutdownCalled /\ FireStep(t)) =>
            \/ /\ Len(retryQueue) < RetryCap(queueSize)
               /\ retryQueue' = Append(retryQueue, cur[t])
               /\ pc'[t] = "none"
               /\ deadLetterLog' = deadLetterLog
            \/ /\ RetryCap(queueSize) = 0
               /\ \E r \in ParkedReceivers : pc'[r] = "process" /\ cur'[r] = cur[t]
               /\ pc'[t] = "none"
               /\ deadLetterLog' = deadLetterLog
            \/ /\ Len(retryQueue) >= RetryCap(queueSize)
               /\ retryQueue' = retryQueue
               /\ pc'[t] = "mdl_lock"
               /\ cur'[t] = cur[t]]_vars
    /\ [](\A t \in Timers :
            /\ pc[t] \in {"none", "sleep", "mdl_lock", "mdl_append",
                          "mdl_incFailed", "mdl_incDL", "mdl_unlock"}
            /\ pc[t] = "sleep" => ENABLED TimerFire(t)
            /\ (pc[t] = "mdl_lock" /\ deadLetterLock = NoThread /\ readers = 0) =>
                  ENABLED MdlLock(t)
            /\ pc[t] = "mdl_append" => ENABLED MdlAppend(t))
    /\ [][\A j \in JobIds : (AllExited /\ InRetryQueue(j)) =>
            /\ InRetryQueue(j)'
            /\ j \notin succeeded'
            /\ ~InDeadLetter(j)']_vars

\* Shutdown was called while a worker held a job in its first attempt; the
\* attempt failed, the timer fired afterwards, and the job sits in the
\* retry queue although Shutdown has returned and every loop has ended
C28_Witness ==
    /\ sdpc = "returned"
    /\ AllExited
    /\ \E j \in JobIds :
          /\ <<j, 0>> \in inflight
          /\ InRetryQueue(j)
          /\ j \notin succeeded
          /\ ~InDeadLetter(j)

(* ================================ C29 ================================= *)
\* C29: every copy of every job carries retry count 0 or 1 (0 in the primary
\* queue, 1 in the retry queue, 0 or 1 in a goroutine's hands); a job held for
\* an attempt with retry count 1 does not meet the failure condition, no
\* job is attempted more than twice and a second attempt is a success; no
\* worker and no retry worker is ever inside moveToDeadLetter, which only
\* timer goroutines enter; and every record of the dead-letter log carries
\* retry count 1 and belongs to a job whose timer met a full retry queue.
C29_AtMostOneRetry ==
    /\ \A i \in 1..Len(jobQueue) : jobQueue[i].Retries = 0
    /\ \A i \in 1..Len(retryQueue) : retryQueue[i].Retries = 1
    /\ \A t \in Threads : cur[t].Retries \in {0, 1}
    /\ \A j \in JobIds :
          /\ attempts[j] <= 2
          /\ attempts[j] = 2 => j \in succeeded
    /\ \A p \in Processors :
          /\ (pc[p] = "process" /\ cur[p].Retries >= 1) => ~ShouldFail(cur[p])
          /\ pc[p] \notin {"mdl_lock", "mdl_append", "mdl_incFailed",
                           "mdl_incDL", "mdl_unlock"}
    /\ \A i \in 1..Len(deadLetterLog) :
          /\ deadLetterLog[i].Retries = 1
          /\ deadLetterLog[i].id \in saturated

\* one job is in the dead-letter log with retry count 1 after its timer met
\* a full retry queue, another has succeeded on its second attempt
C29_Witness ==
    \E j, k \in JobIds :
        /\ j \in saturated
        /\ \E i \in DeadLetterRecords(j) : deadLetterLog[i].Retries = 1
        /\ k \in succeeded
        /\ attempts[k] = 2

====
